---- MODULE Spec2Model ----
(***************************************************************************)
(* Model of WhatsBot/src/Client.js: the Client's bootstrap (initialize),   *)
(* the event bridge (the six handlers exposed to the page and the store    *)
(* subscriptions that call them), the command bridge (sendMessage) and the *)
(* teardown (destroy).                                                     *)
(*                                                                         *)
(* The page (puppeteer) and the in-page store are the environment: a store *)
(* notification is an action whose record is drawn from a small set, a     *)
(* page primitive that can reject does so nondeterministically, and a host *)
(* listener registered on the Client may throw out of emit().              *)
(***************************************************************************)
EXTENDS Integers, Sequences, FiniteSets, TLC

VARIABLES
    initPc,        \* position of initialize(): the step it runs next
    initErr,       \* what the promise of initialize() was rejected with
    console,       \* what console.log has printed
    injects,       \* the first injection succeeds in this page
    exposed,       \* number of handlers registered with page.exposeFunction
    subscribed,    \* the store subscriptions of lines 213-220 are installed
    pupPage,       \* this.pupPage
    info,          \* this.info
    last_message,  \* the closure variable of line 132
    notifs,        \* history: the store notifications delivered so far
    log,           \* history: every emit() and every destroy() call, in order
    inflight,      \* the handler calls the page has posted and the host has not run yet
    destroys,      \* the promise of each destroy() call, in the order of the calls
    marker,        \* the page shows the element destroy() names
    models,        \* window.Store.Chat.models: the id of each chat object
    calls          \* the sendMessage invocations, one record per call slot

vars == <<initPc, initErr, console, injects, exposed, subscribed, pupPage, info, last_message,
          notifs, log, inflight, destroys, marker, models, calls>>

bridgeVars == <<last_message, notifs, log, inflight, destroys, marker>>
initVars == <<initPc, initErr, console, injects, exposed, subscribed, pupPage, info>>
sendVars == <<models, calls>>

-----------------------------------------------------------------------------
(* Bounds *)

MaxNotifs == 3
MaxCalls == 2
MaxDestroys == 2

-----------------------------------------------------------------------------
(* Values *)

\* undefined: a record, so that it compares with the records it stands in for.
Undefined == [class |-> "undefined"]
Null == "null"

\* The event names, as the @fires and @event tags give them. What the
\* documentation calls message_received, message_revoked_everyone,
\* message_removed_by_me and state_changed are the events message,
\* message_revoke_everyone, message_revoke_me and change_state.
Events ==
    [ AUTHENTICATED |-> "authenticated",
      READY |-> "ready",
      MESSAGE_CREATE |-> "message_create",
      MESSAGE_RECEIVED |-> "message",
      MESSAGE_REVOKED_EVERYONE |-> "message_revoke_everyone",
      MESSAGE_REVOKED_ME |-> "message_revoke_me",
      MESSAGE_ACK |-> "message_ack",
      GROUP_JOIN |-> "group_join",
      GROUP_LEAVE |-> "group_leave",
      GROUP_UPDATE |-> "group_update",
      STATE_CHANGED |-> "change_state",
      DISCONNECTED |-> "disconnected" ]

WAState ==
    [ CONNECTED |-> "CONNECTED", OPENING |-> "OPENING", PAIRING |-> "PAIRING",
      TIMEOUT |-> "TIMEOUT", CONFLICT |-> "CONFLICT" ]

ACCEPTED_STATES ==
    {WAState.CONNECTED, WAState.OPENING, WAState.PAIRING, WAState.TIMEOUT}

\* The states the store reports in the model: the accepted ones and another.
States == ACCEPTED_STATES \cup {WAState.CONFLICT}

\* A raw message record as the page serialises it for an exposed handler.
Msg(id, fromMe, type, subtype, isNewMsg, body) ==
    [ id |-> [id |-> id, fromMe |-> fromMe], type |-> type, subtype |-> subtype,
      isNewMsg |-> isNewMsg, body |-> body ]

Bodies == {"v1", "v2"}
\* One subtype for each branch of the handler's group-notification test.
GroupSubtypes == {"invite", "leave", "subject"}

\* Records of 'add' notifications: chat messages (new from the local user, new
\* from someone else, not new) and group notifications (type gp2).
AddedMsgs ==
    { Msg("A", TRUE, "chat", "", TRUE, "v1"), Msg("A", FALSE, "chat", "", TRUE, "v1"),
      Msg("A", FALSE, "chat", "", FALSE, "v1") }
    \cup { Msg("A", TRUE, "gp2", s, TRUE, "") : s \in GroupSubtypes }

\* Records of 'change' notifications: two revisions of A, one of B, and the
\* revoked A (a 'change' fires for the change of type too).
ChangedMsgs ==
    { Msg("A", FALSE, "chat", "", FALSE, b) : b \in Bodies }
    \cup { Msg("B", FALSE, "chat", "", FALSE, "v1"),
           Msg("A", FALSE, "revoked", "", FALSE, "") }

\* Records of 'change:type' notifications.
TypeChangedMsgs ==
    { Msg("A", FALSE, "revoked", "", FALSE, ""), Msg("A", FALSE, "chat", "", FALSE, "v1") }

RemovedMsgs == { Msg("A", FALSE, "chat", "", n, "v1") : n \in BOOLEAN }

\* Records and values of 'change:ack' notifications, as pairs.
Acked ==
    { <<Msg("A", TRUE, "chat", "", FALSE, "v1"), a>> : a \in {"ACK_SERVER", "ACK_READ"} }

\* The structures the bridge wraps raw records in.
Message(data) == [class |-> "Message", data |-> data]
GroupNotification(data) == [class |-> "GroupNotification", data |-> data]
ClientInfo(data) == [class |-> "ClientInfo", data |-> data]

-----------------------------------------------------------------------------
(* emit() and the handlers' effects *)

\* One entry of the log: this.emit(name, args...) or a call of this.destroy().
Emit(name, args) == [op |-> "emit", name |-> name, args |-> args]
CallDestroy == [op |-> "call", name |-> "destroy", args |-> <<>>]

NumEmits(effects) ==
    Cardinality({ i \in 1..Len(effects) : effects[i].op = "emit" })

\* EventEmitter.emit runs the listeners synchronously, so a listener that
\* throws aborts the handler: the effects after that emit do not happen.
\* thr = 0: no listener throws; thr = k: the listener of the k-th emit throws.
Run(effects, thr) ==
    IF thr = 0 THEN effects
    ELSE LET upto == CHOOSE j \in 1..Len(effects) :
                        /\ effects[j].op = "emit"
                        /\ NumEmits(SubSeq(effects, 1, j)) = thr
         IN SubSeq(effects, 1, upto)

\* Tags the effects with the number of the notification that caused them
\* (0: caused by initialize itself).
Tagged(effects, n) ==
    [ i \in 1..Len(effects) |->
        [n |-> n, op |-> effects[i].op, name |-> effects[i].name, args |-> effects[i].args] ]

\* Faulty variant: the handler without the return of line 122.
onAddMessageEvent_NoFromMeTest(msg) ==
    IF ~msg.isNewMsg THEN <<>>
    ELSE IF msg.type = "gp2" THEN
        IF msg.subtype = "add" \/ msg.subtype = "invite"
            THEN << Emit(Events.GROUP_JOIN, <<GroupNotification(msg)>>) >>
        ELSE IF msg.subtype = "remove" \/ msg.subtype = "leave"
            THEN << Emit(Events.GROUP_LEAVE, <<GroupNotification(msg)>>) >>
        ELSE << Emit(Events.GROUP_UPDATE, <<GroupNotification(msg)>>) >>
    ELSE << Emit(Events.MESSAGE_CREATE, <<Message(msg)>>),
            Emit(Events.MESSAGE_RECEIVED, <<Message(msg)>>) >>

\* Faulty variant: the handler without the return of line 110, so that a group
\* notification goes on to be published as a message.
onAddMessageEvent_GroupFallsThrough(msg) ==
    IF ~msg.isNewMsg THEN <<>>
    ELSE ( IF msg.type # "gp2" THEN <<>>
           ELSE IF msg.subtype = "add" \/ msg.subtype = "invite"
               THEN << Emit(Events.GROUP_JOIN, <<GroupNotification(msg)>>) >>
           ELSE IF msg.subtype = "remove" \/ msg.subtype = "leave"
               THEN << Emit(Events.GROUP_LEAVE, <<GroupNotification(msg)>>) >>
           ELSE << Emit(Events.GROUP_UPDATE, <<GroupNotification(msg)>>) >> )
         \o ( IF msg.id.fromMe
              THEN << Emit(Events.MESSAGE_CREATE, <<Message(msg)>>) >>
              ELSE << Emit(Events.MESSAGE_CREATE, <<Message(msg)>>),
                      Emit(Events.MESSAGE_RECEIVED, <<Message(msg)>>) >> )

\* Lines 83-130.
onAddMessageEvent(msg) ==
    IF ~msg.isNewMsg THEN <<>>
    ELSE IF msg.type = "gp2" THEN
        IF msg.subtype = "add" \/ msg.subtype = "invite"
            THEN << Emit(Events.GROUP_JOIN, <<GroupNotification(msg)>>) >>
        ELSE IF msg.subtype = "remove" \/ msg.subtype = "leave"
            THEN << Emit(Events.GROUP_LEAVE, <<GroupNotification(msg)>>) >>
        ELSE << Emit(Events.GROUP_UPDATE, <<GroupNotification(msg)>>) >>
    ELSE IF msg.id.fromMe
        THEN << Emit(Events.MESSAGE_CREATE, <<Message(msg)>>) >>
    ELSE << Emit(Events.MESSAGE_CREATE, <<Message(msg)>>),
            Emit(Events.MESSAGE_RECEIVED, <<Message(msg)>>) >>

\* Faulty variant: the handler without the comparison of identifiers of line 139.
onChangeMessageTypeEvent_NoIdTest(msg, last) ==
    IF msg.type = "revoked" THEN
        LET revoked_msg == IF last # Undefined THEN Message(last) ELSE Undefined
        IN << Emit(Events.MESSAGE_REVOKED_EVERYONE, <<Message(msg), revoked_msg>>) >>
    ELSE <<>>

\* Lines 134-153; last is the value of last_message.
onChangeMessageTypeEvent(msg, last) ==
    IF msg.type = "revoked" THEN
        LET revoked_msg == IF last # Undefined /\ msg.id.id = last.id.id
                           THEN Message(last) ELSE Undefined
        IN << Emit(Events.MESSAGE_REVOKED_EVERYONE, <<Message(msg), revoked_msg>>) >>
    ELSE <<>>

\* Faulty variant: the slot is written once and kept.
onChangeMessageEvent_KeepFirst(msg, last) ==
    IF msg.type # "revoked" /\ last = Undefined THEN msg ELSE last

\* Lines 155-161. The handler only assigns last_message: the value it leaves
\* there.
onChangeMessageEvent(msg, last) ==
    IF msg.type # "revoked" THEN msg ELSE last

\* Lines 163-176.
onRemoveMessageEvent(msg) ==
    IF ~msg.isNewMsg THEN <<>>
    ELSE << Emit(Events.MESSAGE_REVOKED_ME, <<Message(msg)>>) >>

\* Faulty variant: acks are published for new records only.
onMessageAckEvent_NewOnly(msg, ack) ==
    IF ~msg.isNewMsg THEN <<>>
    ELSE << Emit(Events.MESSAGE_ACK, <<Message(msg), ack>>) >>

\* Lines 178-190.
onMessageAckEvent(msg, ack) ==
    << Emit(Events.MESSAGE_ACK, <<Message(msg), ack>>) >>

\* Lines 192-211.
onAppStateChangedEvent(state) ==
    IF state \notin ACCEPTED_STATES
        THEN << Emit(Events.STATE_CHANGED, <<state>>),
                Emit(Events.DISCONNECTED, <<state>>),
                CallDestroy >>
    ELSE << Emit(Events.STATE_CHANGED, <<state>>) >>

\* Lines 214 and 218: the page calls these two handlers for new records only.
StoreOnAdd(msg) == IF msg.isNewMsg THEN onAddMessageEvent(msg) ELSE <<>>

\* Faulty variant: removals are published whether the record is new or not.
StoreOnRemove_Unfiltered(msg) ==
    << Emit(Events.MESSAGE_REVOKED_ME, <<Message(msg)>>) >>

StoreOnRemove(msg) == IF msg.isNewMsg THEN onRemoveMessageEvent(msg) ELSE <<>>

-----------------------------------------------------------------------------
(* initialize(page, browser) *)

\* A call slot before its call.
IdleCall == [ pc |-> "idle", chatId |-> "", message |-> Undefined, options |-> Undefined,
              seenOption |-> "undefined", sendSeen |-> FALSE, before |-> Null,
              invoked |-> <<>>, chat |-> 0, newChatId |-> Null,
              originalChatObjId |-> "", newMessage |-> Undefined,
              ret |-> Undefined, err |-> "" ]

\* The chat lists the store may hold when the client is constructed: no chat,
\* one chat, two chats.
ChatIds == <<"1@c.us", "2@c.us">>
ChatLists == { SubSeq(ChatIds, 1, n) : n \in 0..Len(ChatIds) }

Init ==
    /\ initPc = "exposeStore"
    /\ initErr = ""
    /\ console = <<>>
    /\ injects \in BOOLEAN
    /\ exposed = 0
    /\ subscribed = FALSE
    /\ pupPage = Null
    /\ info = Undefined
    /\ last_message = Undefined
    /\ notifs = <<>>
    /\ log = <<>>
    /\ inflight = <<>>
    /\ destroys = <<>>
    /\ marker = FALSE
    /\ models \in ChatLists
    /\ calls = [c \in 1..MaxCalls |-> IdleCall]

\* What each step of initialize throws when it fails, and what a listener
\* throws out of emit().
Failure ==
    [ ExposeStore |-> "evaluate: ExposeStore",
      localStorage |-> "evaluate: localStorage",
      waitForFunction |-> "waitForFunction: window.Store",
      LoadUtils |-> "evaluate: LoadUtils",
      ClientInfo |-> "evaluate: Conn.serialize",
      exposeFunction |-> "exposeFunction",
      subscriptions |-> "evaluate: subscriptions",
      onAuthenticated |-> "listener: authenticated",
      onReady |-> "listener: ready" ]

\* Faulty variant: a failure of the first injection is not caught.
InjectStore_Propagates ==
    /\ initPc = "exposeStore"
    /\ initPc' = IF injects THEN "localStorage" ELSE "rejected"
    /\ initErr' = IF injects THEN initErr ELSE Failure.ExposeStore
    /\ UNCHANGED <<console, exposed, subscribed, pupPage, info, bridgeVars, sendVars, injects>>

\* Lines 46-51: the first injection; a failure is logged and swallowed.
\* Whether the injected script finds the store's modules depends on the
\* page it runs in.
InjectStore ==
    /\ initPc = "exposeStore"
    /\ initPc' = "localStorage"
    /\ console' = IF injects THEN console ELSE Append(console, Failure.ExposeStore)
    /\ UNCHANGED <<initErr, exposed, subscribed, pupPage, info, bridgeVars, sendVars, injects>>

\* Lines 53-69: read local storage, emit authenticated.
ReadSession ==
    /\ initPc = "localStorage"
    /\ \E ok \in BOOLEAN, thr \in 0..1 :
        IF ok
        THEN /\ log' = log \o Tagged(<<Emit(Events.AUTHENTICATED, <<"session">>)>>, 0)
             /\ initPc' = IF thr = 0 THEN "waitStore" ELSE "rejected"
             /\ initErr' = IF thr = 0 THEN initErr ELSE Failure.onAuthenticated
        ELSE /\ initPc' = "rejected"
             /\ initErr' = Failure.localStorage
             /\ log' = log
    /\ UNCHANGED <<console, exposed, subscribed, pupPage, info, last_message, notifs,
                   inflight, destroys, marker, sendVars, injects>>

\* Line 72, line 75 and lines 78-80: each an awaited page call that may reject.
WaitForStore ==
    /\ initPc = "waitStore"
    /\ \E ok \in BOOLEAN :
        /\ initPc' = IF ok THEN "loadUtils" ELSE "rejected"
        /\ initErr' = IF ok THEN initErr ELSE Failure.waitForFunction
    /\ UNCHANGED <<console, exposed, subscribed, pupPage, info, bridgeVars, sendVars, injects>>

InjectUtils ==
    /\ initPc = "loadUtils"
    /\ \E ok \in BOOLEAN :
        /\ initPc' = IF ok THEN "info" ELSE "rejected"
        /\ initErr' = IF ok THEN initErr ELSE Failure.LoadUtils
    /\ UNCHANGED <<console, exposed, subscribed, pupPage, info, bridgeVars, sendVars, injects>>

\* Faulty variant: the descriptor is not waited for.
FetchInfo_NotAwaited ==
    /\ initPc = "info"
    /\ initPc' = "exposeFunctions"
    /\ UNCHANGED <<initErr, info, console, exposed, subscribed, pupPage, bridgeVars, sendVars, injects>>

FetchInfo ==
    /\ initPc = "info"
    /\ \E ok \in BOOLEAN :
        IF ok THEN initPc' = "exposeFunctions" /\ info' = ClientInfo("Conn") /\ initErr' = initErr
              ELSE initPc' = "rejected" /\ info' = info /\ initErr' = Failure.ClientInfo
    /\ UNCHANGED <<console, exposed, subscribed, pupPage, bridgeVars, sendVars, injects>>

NumHandlers == 6

\* Lines 83-211: the six awaited page.exposeFunction calls, one per step.
ExposeHandler ==
    /\ initPc = "exposeFunctions"
    /\ \E ok \in BOOLEAN :
        IF ok
        THEN /\ exposed' = exposed + 1
             /\ initPc' = IF exposed + 1 = NumHandlers THEN "subscribe" ELSE initPc
             /\ initErr' = initErr
        ELSE /\ exposed' = exposed
             /\ initPc' = "rejected"
             /\ initErr' = Failure.exposeFunction
    /\ UNCHANGED <<console, subscribed, pupPage, info, bridgeVars, sendVars, injects>>

\* Faulty variant: the page is kept before the subscriptions are asked for,
\* so that it stays when they fail.
Subscribe_PageKeptFirst ==
    /\ initPc = "subscribe"
    /\ \E ok \in BOOLEAN, thr \in 0..1 :
        IF ok
        THEN /\ subscribed' = TRUE
             /\ pupPage' = "page"
             /\ log' = log \o Tagged(<<Emit(Events.READY, <<>>)>>, 0)
             /\ initPc' = IF thr = 0 THEN "ready" ELSE "rejected"
             /\ initErr' = IF thr = 0 THEN initErr ELSE Failure.onReady
        ELSE /\ initPc' = "rejected"
             /\ initErr' = Failure.subscriptions
             /\ pupPage' = "page"
             /\ UNCHANGED <<subscribed, log>>
    /\ UNCHANGED <<console, exposed, info, last_message, notifs, inflight, destroys,
                   marker, sendVars, injects>>

\* Lines 213-229: the page installs the store subscriptions; when that call
\* resolves, the page is kept and ready is emitted with no await in between.
Subscribe ==
    /\ initPc = "subscribe"
    /\ \E ok \in BOOLEAN, thr \in 0..1 :
        IF ok
        THEN /\ subscribed' = TRUE
             /\ pupPage' = "page"
             /\ log' = log \o Tagged(<<Emit(Events.READY, <<>>)>>, 0)
             /\ initPc' = IF thr = 0 THEN "ready" ELSE "rejected"
             /\ initErr' = IF thr = 0 THEN initErr ELSE Failure.onReady
        ELSE /\ initPc' = "rejected"
             /\ initErr' = Failure.subscriptions
             /\ UNCHANGED <<subscribed, pupPage, log>>
    /\ UNCHANGED <<console, exposed, info, last_message, notifs, inflight, destroys,
                   marker, sendVars, injects>>

Initialize ==
    \/ InjectStore
    \/ ReadSession
    \/ WaitForStore
    \/ InjectUtils
    \/ FetchInfo
    \/ ExposeHandler
    \/ Subscribe

-----------------------------------------------------------------------------
(* The event bridge: one action per store subscription of lines 214-219 *)

Notification(on, args) == [on |-> on, args |-> args]

\* Lines 235-239: destroy(), called by `by`. No binding of `page` is in scope
\* in destroy (it is a parameter of initialize), so line 238 throws a
\* ReferenceError before waitForSelector is called: the promise is rejected
\* at once, whether the element is shown or not, and nothing waits for it.
destroy(by) ==
    [ by |-> by, pc |-> "rejected", err |-> "ReferenceError: page is not defined",
      waited |-> FALSE, shown |-> marker ]

\* The promises of the destroy() calls among the effects, in order.
DestroyCalls(effects) ==
    LET called == SelectSeq(effects, LAMBDA e : e.op = "call" /\ e.name = "destroy")
    IN [ k \in 1..Len(called) |-> destroy("onAppStateChangedEvent") ]

\* The notification is recorded and the handler's effects, cut short where a
\* listener throws, are appended to the log.
Deliver(on, args, effects, thr) ==
    /\ subscribed
    /\ Len(notifs) < MaxNotifs
    /\ notifs' = Append(notifs, Notification(on, args))
    /\ log' = log \o Tagged(Run(effects, thr), Len(notifs) + 1)
    /\ destroys' = destroys \o DestroyCalls(Run(effects, thr))
    /\ UNCHANGED <<inflight, marker>>

\* Line 214: Store.Msg.on('add')
MsgAdd ==
    \E msg \in AddedMsgs :
        LET effects == StoreOnAdd(msg)
        IN \E thr \in 0..NumEmits(effects) :
            /\ Deliver("add", <<msg>>, effects, thr)
            /\ UNCHANGED <<last_message, initVars, sendVars>>

\* Line 215: Store.Msg.on('change')
MsgChange ==
    \E msg \in ChangedMsgs :
        /\ Deliver("change", <<msg>>, <<>>, 0)
        /\ last_message' = onChangeMessageEvent(msg, last_message)
        /\ UNCHANGED <<initVars, sendVars>>

\* Line 216: Store.Msg.on('change:type')
MsgChangeType ==
    \E msg \in TypeChangedMsgs :
        LET effects == onChangeMessageTypeEvent(msg, last_message)
        IN \E thr \in 0..NumEmits(effects) :
            /\ Deliver("change:type", <<msg>>, effects, thr)
            /\ UNCHANGED <<last_message, initVars, sendVars>>

\* Line 217: Store.Msg.on('change:ack')
MsgChangeAck ==
    \E p \in Acked :
        LET effects == onMessageAckEvent(p[1], p[2])
        IN \E thr \in 0..NumEmits(effects) :
            /\ Deliver("change:ack", p, effects, thr)
            /\ UNCHANGED <<last_message, initVars, sendVars>>

\* Line 218: Store.Msg.on('remove')
MsgRemove ==
    \E msg \in RemovedMsgs :
        LET effects == StoreOnRemove(msg)
        IN \E thr \in 0..NumEmits(effects) :
            /\ Deliver("remove", <<msg>>, effects, thr)
            /\ UNCHANGED <<last_message, initVars, sendVars>>

\* Line 219: Store.AppState.on('change:state')
AppStateChange ==
    \E state \in States :
        LET effects == onAppStateChangedEvent(state)
        IN \E thr \in 0..NumEmits(effects) :
            /\ Deliver("change:state", <<state>>, effects, thr)
            /\ UNCHANGED <<last_message, initVars, sendVars>>

Notify ==
    \/ MsgAdd
    \/ MsgChange
    \/ MsgChangeType
    \/ MsgChangeAck
    \/ MsgRemove
    \/ AppStateChange

NextBridge == Initialize \/ Notify

\* The bridge reads neither the chat list nor the outcome of the first
\* injection: one list and a page where the injection succeeds stand for all.
InitBridge == Init /\ models = <<"1@c.us">> /\ injects

\* A client with one chat, in either kind of page.
InitSession == Init /\ models = <<"1@c.us">>

SpecBridge == InitBridge /\ [][NextBridge]_vars

-----------------------------------------------------------------------------
(* The event bridge with the calls of the page in flight *)

\* A page-side subscription calls an exposed handler by posting the call to
\* the host; the host runs the handlers of the calls it receives. The
\* notifications the page posts in this view of the bridge:
Posted ==
    << Notification("add", <<Msg("A", FALSE, "chat", "", TRUE, "v1")>>),
      Notification("change", <<Msg("A", FALSE, "chat", "", FALSE, "v1")>>),
      Notification("change:type", <<Msg("A", FALSE, "revoked", "", FALSE, "")>>),
      Notification("change:ack", <<Msg("A", TRUE, "chat", "", FALSE, "v1"), "ACK_READ">>),
      Notification("remove", <<Msg("A", FALSE, "chat", "", TRUE, "v1")>>),
      Notification("change:state", <<WAState.CONFLICT>>) >>

\* Lines 214-219: a store notification; the page posts the handler's call.
Post ==
    /\ subscribed
    /\ Len(notifs) < MaxNotifs
    /\ \E p \in DOMAIN Posted :
        /\ notifs' = Append(notifs, Posted[p])
        /\ inflight' = Append(inflight, Len(notifs) + 1)
    /\ UNCHANGED <<last_message, log, destroys, marker, initVars, sendVars>>

\* What the handler of notification n does: lines 83-211 and 214-219.
HandlerEffects(n, last) ==
    CASE n.on = "add" -> StoreOnAdd(n.args[1])
      [] n.on = "change" -> <<>>
      [] n.on = "change:type" -> onChangeMessageTypeEvent(n.args[1], last)
      [] n.on = "change:ack" -> onMessageAckEvent(n.args[1], n.args[2])
      [] n.on = "remove" -> StoreOnRemove(n.args[1])
      [] n.on = "change:state" -> onAppStateChangedEvent(n.args[1])

\* Faulty variant: the host runs the call posted last.
NextInLine_Newest(q) == Len(q)

\* The position, among the calls in flight, of the one the host runs next:
\* the calls reach the host in the order the page posted them.
NextInLine(q) == 1

\* The host receives a call and runs its handler to the end (no handler
\* awaits anything), up to the listener that throws.
Dispatch ==
    /\ inflight # <<>>
    /\ LET k == NextInLine(inflight)
           i == inflight[k]
           n == notifs[i]
           effects == HandlerEffects(n, last_message)
       IN /\ inflight' = SubSeq(inflight, 1, k - 1) \o SubSeq(inflight, k + 1, Len(inflight))
          /\ last_message' = IF n.on = "change"
                              THEN onChangeMessageEvent(n.args[1], last_message)
                              ELSE last_message
          /\ \E thr \in 0..NumEmits(effects) :
                /\ log' = log \o Tagged(Run(effects, thr), i)
                /\ destroys' = destroys \o DestroyCalls(Run(effects, thr))
    /\ UNCHANGED <<notifs, marker, initVars, sendVars>>

NextQueue == Initialize \/ Post \/ Dispatch

SpecQueue == InitSession /\ [][NextQueue]_vars

-----------------------------------------------------------------------------
(* Teardown *)

\* The host calls destroy() on a client that is ready.
Destroy ==
    /\ initPc = "ready"
    /\ Len(destroys) < MaxDestroys
    /\ destroys' = Append(destroys, destroy("host"))
    /\ UNCHANGED <<last_message, notifs, log, inflight, marker, initVars, sendVars>>

\* The page shows the element of line 237.
MarkerAppears ==
    /\ ~marker
    /\ marker' = TRUE
    /\ UNCHANGED <<last_message, notifs, log, inflight, destroys, initVars, sendVars>>

NextTeardown == Initialize \/ AppStateChange \/ Destroy \/ MarkerAppears

SpecTeardown == InitBridge /\ [][NextTeardown]_vars

-----------------------------------------------------------------------------
(* The command bridge: sendMessage(chatId, content, options) *)

\* Values of content and of the options, each with its class.
Text(v) == [class |-> "String", value |-> v]
MessageMedia(v) == [class |-> "MessageMedia", value |-> v]
Location(v) == [class |-> "Location", value |-> v]

Options(caption, media, sendSeen) ==
    [caption |-> caption, media |-> media, sendSeen |-> sendSeen]

\* Lines 261-278: the content and the options passed into the page.
Normalize(content, options) ==
    LET internalOptions == [ caption |-> options.caption,
                             quotedMessageId |-> Undefined,
                             mentionedJidList |-> <<>>,
                             attachment |-> Undefined,
                             location |-> Undefined ]
    IN IF content.class = "MessageMedia"
       THEN [ message |-> Text(""),
              options |-> [internalOptions EXCEPT !.attachment = content] ]
       ELSE IF options.media.class = "MessageMedia"
       THEN [ message |-> content,
              options |-> [internalOptions EXCEPT !.attachment = options.media,
                                                  !.caption = content] ]
       ELSE IF content.class = "Location"
       THEN [ message |-> Text(""),
              options |-> [internalOptions EXCEPT !.location = content] ]
       ELSE [ message |-> content, options |-> internalOptions ]

\* Faulty variant: a send marks the chat seen only when asked to.
SendSeenOf_DefaultFalse(option) == option = "true"

\* Line 267: the option sendSeen is "undefined", "true" or "false".
SendSeenOf(option) == IF option = "undefined" THEN TRUE ELSE option = "true"

\* The destinations, contents and options of the calls of the model.
\* Only a send to a chat of the list reads sendSeen: the other destinations
\* come with the option unset.
SendContents == {Text("hello")}
SendInputs ==
    { <<"1@c.us", Options(Undefined, Undefined, o)>> : o \in {"undefined", "true", "false"} }
    \cup { <<t, Options(Undefined, Undefined, "undefined")>> : t \in {"3", "9"} }

\* window.Store.Chat.get(chatId): the index in models of the chat that
\* carries this id when the page looks it up, 0 when there is none.
ChatGet(chatId) ==
    IF \E i \in 1..Len(models) : models[i] = chatId
    THEN CHOOSE i \in 1..Len(models) :
            models[i] = chatId /\ \A j \in 1..(i - 1) : models[j] # chatId
    ELSE 0

\* window.WWebJS.getNumberId(chatId): the canonical id of a registered
\* number, null for one that is not registered.
getNumberId(chatId) ==
    IF chatId = "3" THEN "3@c.us"
    ELSE IF chatId = "1@c.us" THEN "1@c.us"
    ELSE Null

\* The store's message object that the send of call c produced, and what its
\* serialize() returns.
StoreMsg(c) == [msgObject |-> c]
Serialize(msg) == [id |-> [id |-> msg.msgObject, fromMe |-> TRUE], type |-> "chat"]

\* One helper invocation inside the page. chat is the index of the chat
\* object passed (0: none), id the chat id passed or carried by that object
\* when the helper was invoked.
Invoke(fn, chat, id, args) ==
    [fn |-> fn, chat |-> chat, id |-> id, args |-> args]

Rejected(call, err) == [call EXCEPT !.pc = "rejected", !.err = err]

\* Lines 260-280: the host side of a call, up to page.evaluate. this.pupPage
\* is null until initialize has set it: the call then fails at line 280 and
\* its locals are gone.
sendMessage(c, chatId, content, options) ==
    /\ calls[c].pc = "idle"
    /\ \A d \in 1..(c - 1) : calls[d].pc # "idle"
    /\ LET n == Normalize(content, options)
           call == [ calls[c] EXCEPT !.chatId = chatId, !.message = n.message,
                                     !.options = n.options,
                                     !.seenOption = options.sendSeen,
                                     !.sendSeen = SendSeenOf(options.sendSeen),
                                     !.before = IF Len(models) = 0 THEN Null ELSE models[1] ]
       IN calls' = [ calls EXCEPT ![c] =
                        IF pupPage = Null
                        THEN Rejected(calls[c], "TypeError: pupPage is null")
                        ELSE [call EXCEPT !.pc = "evaluate"] ]
    /\ UNCHANGED <<models, initVars, bridgeVars>>

\* The host calls sendMessage with a text, to a chat of the list or not.
SendMessage(c) ==
    \E in \in SendInputs, content \in SendContents :
        sendMessage(c, in[1], content, in[2])

\* Lines 281-285 and 300-305: the page looks the chat up; when it is there,
\* it is marked seen (unless sendSeen is false) and the send starts; when it
\* is not, the resolution of the id starts.
Evaluate(c) ==
    /\ calls[c].pc = "evaluate"
    /\ LET call == calls[c]
           chat == ChatGet(call.chatId)
       IN calls' = [ calls EXCEPT ![c] =
            IF chat # 0
            THEN [ call EXCEPT
                    !.pc = "sendDirect",
                    !.chat = chat,
                    !.invoked =
                        ( IF call.sendSeen
                          THEN << Invoke("sendSeen", 0, call.chatId, <<>>) >>
                          ELSE <<>> )
                        \o << Invoke("sendMessage", chat, models[chat],
                                     <<call.message, call.options, call.sendSeen>>) >> ]
            ELSE [ call EXCEPT
                    !.pc = "getNumberId",
                    !.invoked = << Invoke("getNumberId", 0, call.chatId, <<>>) >> ] ]
    /\ UNCHANGED <<models, initVars, bridgeVars>>

\* Faulty variant: the empty list is detected before the id is looked at.
AfterResolution_ListFirst(newChatId, chats) ==
    IF Len(chats) = 0 THEN "throw"
    ELSE IF newChatId = Null THEN "skip"
    ELSE "borrow"

\* Lines 286-291: what the page does with the resolved id.
AfterResolution(newChatId, chats) ==
    IF newChatId = Null THEN "skip"
    ELSE IF Len(chats) = 0 THEN "throw"
    ELSE "borrow"

\* Lines 285-296: the resolution returns (or throws). With an id, the first
\* chat of the list lends its identity and the send starts; with no chat in
\* the list, the page throws. With no id, msg stays undefined and line 307
\* fails on it.
Resolved(c) ==
    /\ calls[c].pc = "getNumberId"
    /\ \E ok \in BOOLEAN :
        LET call == calls[c]
            newChatId == getNumberId(call.chatId)
        IN IF ~ok
           THEN /\ calls' = [calls EXCEPT ![c] = Rejected(call, "Evaluation failed: helper")]
                /\ UNCHANGED models
           ELSE IF AfterResolution(newChatId, models) = "skip"
           THEN /\ calls' = [ calls EXCEPT ![c] =
                                Rejected(call, "Evaluation failed: TypeError: msg is undefined") ]
                /\ UNCHANGED models
           ELSE IF AfterResolution(newChatId, models) = "throw"
           THEN /\ calls' = [ calls EXCEPT ![c] =
                                Rejected([call EXCEPT !.newChatId = newChatId],
                                         "Evaluation failed: Chat List empty!") ]
                /\ UNCHANGED models
           ELSE /\ models' = [models EXCEPT ![1] = newChatId]
                /\ calls' = [ calls EXCEPT ![c] =
                                [ call EXCEPT
                                    !.pc = "sendBorrowed",
                                    !.chat = 1,
                                    !.newChatId = newChatId,
                                    !.originalChatObjId = models[1],
                                    !.invoked = Append(call.invoked,
                                        Invoke("sendMessage", 1, newChatId,
                                               <<call.message, call.options>>)) ] ]
    /\ UNCHANGED <<initVars, bridgeVars>>

\* The identities after line 297 has run for this call.
Restore(call) == [models EXCEPT ![call.chat] = call.originalChatObjId]

\* Lines 296-297 and 307: the send on the borrowed identity returns, the
\* identity is put back and the message is serialised; or the send throws and
\* the evaluation fails there.
SentBorrowed(c) ==
    /\ calls[c].pc = "sendBorrowed"
    /\ \E ok \in BOOLEAN :
        LET call == calls[c]
        IN IF ok
           THEN /\ models' = Restore(call)
                /\ calls' = [ calls EXCEPT ![c] =
                                [ call EXCEPT !.pc = "evaluated",
                                              !.newMessage = Serialize(StoreMsg(c)) ] ]
           ELSE /\ calls' = [calls EXCEPT ![c] = Rejected(call, "Evaluation failed: helper")]
                /\ UNCHANGED models
    /\ UNCHANGED <<initVars, bridgeVars>>

\* Lines 305 and 307: the direct send returns, or throws.
SentDirect(c) ==
    /\ calls[c].pc = "sendDirect"
    /\ \E ok \in BOOLEAN :
        LET call == calls[c]
        IN calls' = [ calls EXCEPT ![c] =
                        IF ok
                        THEN [ call EXCEPT !.pc = "evaluated",
                                           !.newMessage = Serialize(StoreMsg(c)) ]
                        ELSE Rejected(call, "Evaluation failed: helper") ]
    /\ UNCHANGED <<models, initVars, bridgeVars>>

\* Line 310: page.evaluate has resolved; the call returns the Message.
Return(c) ==
    /\ calls[c].pc = "evaluated"
    /\ calls' = [ calls EXCEPT ![c] =
                    [calls[c] EXCEPT !.pc = "returned", !.ret = Message(calls[c].newMessage)] ]
    /\ UNCHANGED <<models, initVars, bridgeVars>>

Send ==
    \E c \in 1..MaxCalls :
        \/ SendMessage(c)
        \/ Evaluate(c)
        \/ Resolved(c)
        \/ SentBorrowed(c)
        \/ SentDirect(c)
        \/ Return(c)

NextSend == Initialize \/ Send

SpecSend == Init /\ [][NextSend]_vars

-----------------------------------------------------------------------------
(* The command bridge: the kinds of content *)

\* The contents and options of a call, each of every kind the host may pass:
\* a text (empty or not), a media, a location; with or without options.media
\* and options.caption.
Contents == {Text("hello"), Text(""), MessageMedia("picture"), Location("place")}
Medias == {Undefined, MessageMedia("document")}
Captions == {Undefined, Text("caption")}

\* The host calls sendMessage for a chat of the list with content of any kind.
SendContent(c) ==
    \E content \in Contents, media \in Medias, caption \in Captions :
        sendMessage(c, ChatIds[1], content, Options(caption, media, "undefined"))

NextContent ==
    \/ Initialize
    \/ \E c \in 1..MaxCalls :
        \/ SendContent(c)
        \/ Evaluate(c)
        \/ SentDirect(c)
        \/ Return(c)

SpecContent == InitBridge /\ [][NextContent]_vars

-----------------------------------------------------------------------------
(* The bootstrap, with commands and notifications around it *)

\* The host sends a text to the chat of the list, at any time: before, during
\* or after initialize.
SendText(c) ==
    sendMessage(c, ChatIds[1], Text("hello"), Options(Undefined, Undefined, "undefined"))

NextBoot ==
    \/ Initialize
    \/ MsgRemove
    \/ MsgChangeAck
    \/ \E c \in 1..MaxCalls :
        \/ SendText(c)
        \/ Evaluate(c)
        \/ SentDirect(c)
        \/ Return(c)

SpecBoot == InitSession /\ [][NextBoot]_vars

-----------------------------------------------------------------------------
(* The event bridge: properties *)

\* What notification i caused, in order, without the tags.
EffectsOf(i) ==
    LET mine == SelectSeq(log, LAMBDA e : e.n = i)
    IN [ k \in 1..Len(mine) |->
            [op |-> mine[k].op, name |-> mine[k].name, args |-> mine[k].args] ]

NamesOf(i) == { EffectsOf(i)[k].name : k \in 1..Len(EffectsOf(i)) }

IsOn(i, on) == notifs[i].on = on

\* C1 (as stated): a connection-state notification with a state among
\* CONNECTED, OPENING, PAIRING, TIMEOUT causes exactly one event, change_state
\* with that state, and no destroy(); with any other state it causes
\* change_state, then disconnected, both with that state, then destroy().
C1_StateChangeContract ==
    \A i \in 1..Len(notifs) :
        IsOn(i, "change:state") =>
            LET state == notifs[i].args[1]
            IN IF state \in {"CONNECTED", "OPENING", "PAIRING", "TIMEOUT"}
               THEN EffectsOf(i) = << Emit("change_state", <<state>>) >>
               ELSE EffectsOf(i) = << Emit("change_state", <<state>>),
                                      Emit("disconnected", <<state>>),
                                      CallDestroy >>

\* C2: a 'change' of a record with identifier X that is not revoked,
\* immediately followed by a 'change:type' to revoked for X, makes the
\* message_revoke_everyone event carry, as its second argument, the record
\* delivered with that change.
C2_RevokedCarriesSnapshot ==
    \A i \in 1..(Len(notifs) - 1) :
        LET first == notifs[i].args[1]
            second == notifs[i + 1].args[1]
        IN ( /\ IsOn(i, "change") /\ first.type # "revoked"
             /\ IsOn(i + 1, "change:type") /\ second.type = "revoked"
             /\ second.id.id = first.id.id )
           => EffectsOf(i + 1) =
                << Emit("message_revoke_everyone", <<Message(second), Message(first)>>) >>

C2_Witness ==
    \E i \in 1..(Len(notifs) - 1) :
        /\ IsOn(i, "change") /\ notifs[i].args[1].type # "revoked"
        /\ IsOn(i + 1, "change:type") /\ notifs[i + 1].args[1].type = "revoked"
        /\ notifs[i + 1].args[1].id.id = notifs[i].args[1].id.id
        /\ Len(EffectsOf(i + 1)) = 1

\* The latest 'change' notification before i whose record is not revoked
\* (0 when there is none).
LastCachedBefore(i) ==
    LET cached == { j \in 1..(i - 1) :
                      IsOn(j, "change") /\ notifs[j].args[1].type # "revoked" }
    IN IF cached = {} THEN 0 ELSE CHOOSE j \in cached : \A k \in cached : k <= j

\* C3: a message_revoke_everyone event for identifier X carries a second
\* argument exactly when the most recent non-revoked 'change' record has
\* identifier X, and then it is that record; otherwise (none was notified,
\* or a later one had another identifier) the argument is undefined.
C3_SingleSlotCache ==
    \A i \in 1..Len(notifs) :
        (IsOn(i, "change:type") /\ notifs[i].args[1].type = "revoked") =>
            LET msg == notifs[i].args[1]
                j == LastCachedBefore(i)
                previous == IF j # 0 /\ notifs[j].args[1].id.id = msg.id.id
                            THEN Message(notifs[j].args[1]) ELSE Undefined
            IN EffectsOf(i) =
                 << Emit("message_revoke_everyone", <<Message(msg), previous>>) >>

\* A change for X, then a change for another identifier, then X revoked: the
\* event carries no previous state.
C3_Witness ==
    \E i \in 1..Len(notifs), j \in 1..Len(notifs), k \in 1..Len(notifs) :
        /\ j < k /\ k < i
        /\ IsOn(i, "change:type") /\ notifs[i].args[1].type = "revoked"
        /\ IsOn(j, "change") /\ notifs[j].args[1].type # "revoked"
        /\ notifs[j].args[1].id.id = notifs[i].args[1].id.id
        /\ k = LastCachedBefore(i)
        /\ notifs[k].args[1].id.id # notifs[i].args[1].id.id
        /\ Len(EffectsOf(i)) = 1
        /\ EffectsOf(i)[1].args[2] = Undefined

\* C4: an 'add' or 'remove' notification whose record has isNewMsg false
\* causes none of message_create, message, message_revoke_me.
C4_NotNewIsSilent ==
    \A i \in 1..Len(notifs) :
        ((IsOn(i, "add") \/ IsOn(i, "remove")) /\ ~notifs[i].args[1].isNewMsg) =>
            NamesOf(i) \cap {"message_create", "message", "message_revoke_me"} = {}

\* A record that is not new was removed, and a new one was removed as well
\* (and did cause message_revoke_me).
C4_Witness ==
    /\ \E i \in 1..Len(notifs) : IsOn(i, "remove") /\ ~notifs[i].args[1].isNewMsg
    /\ \E i \in 1..Len(notifs) : IsOn(i, "add") /\ ~notifs[i].args[1].isNewMsg
    /\ \E i \in 1..Len(notifs) : IsOn(i, "remove") /\ "message_revoke_me" \in NamesOf(i)

\* Every 'message' event is preceded, among the effects of the same
\* notification, by a message_create event with the same message.
ReceivedFollowsCreate ==
    \A i \in 1..Len(notifs) :
        \A k \in 1..Len(EffectsOf(i)) :
            EffectsOf(i)[k].name = "message" =>
                \E h \in 1..(k - 1) :
                    /\ EffectsOf(i)[h].name = "message_create"
                    /\ EffectsOf(i)[h].args = EffectsOf(i)[k].args

\* C5 (as stated): every 'add' of a new record from the local user causes
\* message_create and no 'message' event; and every 'message' event follows
\* a message_create with the same message within its notification.
C5_FromMeCreatesOnly ==
    /\ \A i \in 1..Len(notifs) :
        (IsOn(i, "add") /\ notifs[i].args[1].isNewMsg /\ notifs[i].args[1].id.fromMe) =>
            /\ "message_create" \in NamesOf(i)
            /\ "message" \notin NamesOf(i)
    /\ ReceivedFollowsCreate

\* C5 (amended): the same for the records that are not group notifications
\* (type other than gp2); a new group notification from the local user
\* causes neither message_create nor 'message'.
C5_FromMeCreatesOnlyUnlessGroup ==
    /\ \A i \in 1..Len(notifs) :
        (IsOn(i, "add") /\ notifs[i].args[1].isNewMsg /\ notifs[i].args[1].id.fromMe) =>
            /\ "message_create" \in NamesOf(i) <=> notifs[i].args[1].type # "gp2"
            /\ "message" \notin NamesOf(i)
    /\ ReceivedFollowsCreate

\* A new chat message from the local user was added, and so was a new one
\* from someone else, which did cause a 'message' event.
C5_Witness ==
    /\ \E i \in 1..Len(notifs) :
        /\ IsOn(i, "add") /\ notifs[i].args[1].isNewMsg /\ notifs[i].args[1].id.fromMe
        /\ notifs[i].args[1].type # "gp2"
    /\ \E i \in 1..Len(notifs) : "message" \in NamesOf(i)

\* C6 (as stated): an 'add' notification causes message_create exactly when
\* its record is marked new, whatever its type.
C6_NewAlwaysCreates ==
    \A i \in 1..Len(notifs) :
        IsOn(i, "add") =>
            ("message_create" \in NamesOf(i) <=> notifs[i].args[1].isNewMsg)

GroupEventOf(subtype) ==
    IF subtype \in {"add", "invite"} THEN "group_join"
    ELSE IF subtype \in {"remove", "leave"} THEN "group_leave"
    ELSE "group_update"

\* C6 (amended): an 'add' notification causes message_create exactly when
\* its record is marked new and is not a group notification; a new group
\* notification causes one event instead, group_join, group_leave or
\* group_update by its subtype, carrying the notification.
C6_NewCreatesUnlessGroup ==
    \A i \in 1..Len(notifs) :
        IsOn(i, "add") =>
            LET msg == notifs[i].args[1]
            IN /\ "message_create" \in NamesOf(i) <=> (msg.isNewMsg /\ msg.type # "gp2")
               /\ (msg.isNewMsg /\ msg.type = "gp2") =>
                    EffectsOf(i) = << Emit(GroupEventOf(msg.subtype), <<GroupNotification(msg)>>) >>

C6_Witness ==
    /\ \E i \in 1..Len(notifs) :
        IsOn(i, "add") /\ notifs[i].args[1].type = "gp2" /\ "group_leave" \in NamesOf(i)
    /\ \E i \in 1..Len(notifs) :
        IsOn(i, "add") /\ "message_create" \in NamesOf(i)

\* C7: every 'change:ack' notification causes exactly one event, message_ack
\* with the record and the ack value; so the log holds as many message_ack
\* events of a payload as notifications of that payload were delivered.
C7_AckNeverFiltered ==
    /\ \A i \in 1..Len(notifs) :
        IsOn(i, "change:ack") =>
            EffectsOf(i) =
                << Emit("message_ack", <<Message(notifs[i].args[1]), notifs[i].args[2]>>) >>
    /\ \A p \in Acked :
        Cardinality({ i \in 1..Len(notifs) : IsOn(i, "change:ack") /\ notifs[i].args = p })
        = Cardinality({ k \in 1..Len(log) :
                          /\ log[k].name = "message_ack"
                          /\ log[k].args = <<Message(p[1]), p[2]>> })

\* The same ack notification delivered twice, with another notification in
\* between, and two message_ack events in the log.
C7_Witness ==
    \E i \in 1..Len(notifs), k \in 1..Len(notifs) :
        /\ i + 1 < k
        /\ IsOn(i, "change:ack") /\ IsOn(k, "change:ack")
        /\ notifs[i].args = notifs[k].args
        /\ ~IsOn(i + 1, "change:ack")
        /\ EffectsOf(i) = EffectsOf(k)
        /\ Len(EffectsOf(i)) = 1

-----------------------------------------------------------------------------
(* The command bridge: properties *)

\* The helpers call c has invoked, in order.
HelpersOf(c) == [ k \in 1..Len(calls[c].invoked) |-> calls[c].invoked[k].fn ]

\* Call c looked its chat up and did not find it / found it.
TookResolution(c) == Len(calls[c].invoked) > 0 /\ HelpersOf(c)[1] = "getNumberId"

TookDirect(c) == Len(calls[c].invoked) > 0 /\ HelpersOf(c)[1] # "getNumberId"

Borrowed(c) == HelpersOf(c) = <<"getNumberId", "sendMessage">>

Returns(c) == calls[c].pc = "evaluated" /\ calls'[c].pc = "returned"

\* C8 (as stated): a call that borrows an identity sends against the first
\* chat of the list while that chat carries the resolved identity; when the
\* call returns, that chat has the identity it had when the call was made;
\* and no other chat's identity ever changes.
C8_BorrowedIdentityRestored ==
    /\ [](\A c \in 1..MaxCalls :
            calls[c].pc = "sendBorrowed" =>
                /\ calls[c].chat = 1
                /\ models[1] = getNumberId(calls[c].chatId))
    /\ [][\A c \in 1..MaxCalls :
            (Returns(c) /\ Borrowed(c)) => models'[1] = calls[c].before]_vars
    /\ [](\A i \in 2..Len(models) : models[i] = ChatIds[i])

UnresolvedOnEmptyList(c) ==
    /\ calls[c].pc \notin {"idle", "evaluate", "getNumberId"}
    /\ TookResolution(c)
    /\ calls[c].err # "Evaluation failed: helper"
    /\ getNumberId(calls[c].chatId) = Null
    /\ Len(models) = 0

NoSendBy(c) == HelpersOf(c) = <<"getNumberId">>

\* C9 (as stated): a call whose chat is absent and cannot be resolved, with
\* an empty chat list, fails with the thrown 'Chat List empty!' failure,
\* changes no identity and sends nothing.
C9_StructuralFailure ==
    \A c \in 1..MaxCalls :
        UnresolvedOnEmptyList(c) =>
            /\ calls[c].pc = "rejected"
            /\ calls[c].err = "Evaluation failed: Chat List empty!"
            /\ models = <<>>
            /\ NoSendBy(c)

\* C9 (amended): such a call fails on the undefined msg of line 307, changes
\* no identity and sends nothing; the thrown 'Chat List empty!' failure is
\* that of the calls whose chat is absent and does resolve while the list is
\* empty, which send nothing either.
C9_UnresolvedFailsOnUndefined ==
    \A c \in 1..MaxCalls :
        /\ UnresolvedOnEmptyList(c) =>
            /\ calls[c].pc = "rejected"
            /\ calls[c].err = "Evaluation failed: TypeError: msg is undefined"
            /\ models = <<>>
            /\ NoSendBy(c)
        /\ calls[c].err = "Evaluation failed: Chat List empty!" <=>
            /\ calls[c].pc = "rejected"
            /\ TookResolution(c)
            /\ getNumberId(calls[c].chatId) # Null
            /\ Len(models) = 0
            /\ calls[c].err # "Evaluation failed: helper"
        /\ calls[c].err = "Evaluation failed: Chat List empty!" =>
            models = <<>> /\ NoSendBy(c)

\* Both failures have happened on an empty list.
C9_Witness ==
    /\ \E c \in 1..MaxCalls : UnresolvedOnEmptyList(c)
    /\ \E c \in 1..MaxCalls : calls[c].err = "Evaluation failed: Chat List empty!"

\* C10: a call whose chat is in the list invokes the send helper on that
\* chat, preceded by the mark-seen helper for the same id exactly when the
\* option sendSeen is unset or true; the Message it returns is made of the
\* serialised result of that send; and none of its steps changes a chat's
\* identity.
C10_DirectSend ==
    /\ [](\A c \in 1..MaxCalls :
            TookDirect(c) =>
                LET seen == << Invoke("sendSeen", 0, calls[c].chatId, <<>>) >>
                    wanted == calls[c].seenOption \in {"undefined", "true"}
                    mine == calls[c].invoked
                    send == mine[Len(mine)]
                IN /\ Len(mine) = IF wanted THEN 2 ELSE 1
                   /\ wanted => SubSeq(mine, 1, 1) = seen
                   /\ send.fn = "sendMessage"
                   /\ send.chat # 0
                   /\ send.id = calls[c].chatId
                   /\ calls[c].pc = "returned" =>
                        calls[c].ret = Message(Serialize(StoreMsg(c))))
    /\ [][\A c \in 1..MaxCalls :
            ( /\ calls'[c] # calls[c]
              /\ calls[c].pc # "idle"
              /\ (calls[c].pc = "evaluate" => ChatGet(calls[c].chatId) # 0)
              /\ (calls[c].pc # "evaluate" => TookDirect(c)) )
            => models' = models]_vars

\* Direct sends have returned with the option unset, true and false.
C10_Witness ==
    \E c \in 1..MaxCalls, d \in 1..MaxCalls :
        /\ TookDirect(c) /\ calls[c].pc = "returned" /\ calls[c].seenOption = "false"
        /\ TookDirect(d) /\ calls[d].pc = "returned" /\ calls[d].seenOption \in {"undefined", "true"}
        /\ HelpersOf(d) = <<"sendSeen", "sendMessage">>

-----------------------------------------------------------------------------
(* initialize: properties *)

\* The positions of initialize, in the order of its steps.
Steps ==
    << "exposeStore", "localStorage", "waitStore", "loadUtils", "info",
       "exposeFunctions", "subscribe", "ready" >>

StepOf(pc) == CHOOSE k \in 1..Len(Steps) : Steps[k] = pc

\* The positions in the log of the events of this name.
EmittedAt(name) == { k \in 1..Len(log) : log[k].op = "emit" /\ log[k].name = name }

\* The log entries a step adds.
Added == SubSeq(log', Len(log) + 1, Len(log'))

\* C11: ready is emitted at most once, by the step that follows the
\* installation of the subscriptions, and initialize reaches that step only
\* through every earlier one in order (first injection, local-storage read
\* with authenticated, store wait, helper injection, descriptor fetch, the
\* six handler exposures); authenticated is in the log before ready; and a
\* step adds a bridged event to the log only when the subscriptions are
\* installed.
C11_ReadyOnceAfterBootstrap ==
    /\ [](/\ Cardinality(EmittedAt("ready")) <= 1
          /\ \A k \in EmittedAt("ready") :
                /\ \E h \in EmittedAt("authenticated") : h < k
                /\ \A h \in 1..k : log[h].n = 0
                /\ info = ClientInfo("Conn")
                /\ exposed = NumHandlers
                /\ subscribed
                /\ pupPage = "page")
    /\ [][ /\ (EmittedAt("ready") # {} /\ Len(log') > Len(log)) =>
                \A k \in 1..Len(Added) : Added[k].name # "ready"
           /\ (\E k \in 1..Len(Added) : Added[k].name = "ready") =>
                initPc = "subscribe"
           /\ initPc' # initPc =>
                /\ initPc # "rejected" /\ initPc # "ready"
                /\ initPc' = "rejected" \/ StepOf(initPc') = StepOf(initPc) + 1
           /\ (\E k \in 1..Len(Added) : Added[k].n # 0) => subscribed ]_vars

\* Ready was emitted, and then a notification was republished.
C11_Witness ==
    /\ EmittedAt("ready") # {}
    /\ \E k \in 1..Len(log) : log[k].n # 0 /\ log[k].op = "emit"

\* The failures of the steps after the first injection.
BootstrapFailures ==
    { Failure.localStorage, Failure.waitForFunction, Failure.LoadUtils,
      Failure.ClientInfo, Failure.exposeFunction, Failure.subscriptions }

\* What the step at this position throws when its page call fails.
FailureOf(pc) ==
    CASE pc = "localStorage" -> Failure.localStorage
      [] pc = "waitStore" -> Failure.waitForFunction
      [] pc = "loadUtils" -> Failure.LoadUtils
      [] pc = "info" -> Failure.ClientInfo
      [] pc = "exposeFunctions" -> Failure.exposeFunction
      [] pc = "subscribe" -> Failure.subscriptions
      [] OTHER -> ""

C13_InjectionFailureSwallowed ==
    /\ [][ /\ initPc = "exposeStore" =>
                /\ initPc' \in {"exposeStore", "localStorage"}
                /\ initErr' = ""
                /\ log' = log
           /\ console' # console =>
                /\ initPc = "exposeStore" /\ initPc' = "localStorage"
                /\ console' = Append(console, Failure.ExposeStore) ]_vars
    /\ [](/\ initErr # Failure.ExposeStore
          /\ initPc = "ready" =>
                /\ subscribed /\ pupPage = "page" /\ info = ClientInfo("Conn")
                /\ exposed = NumHandlers
                /\ SubSeq(log, 1, 2) =
                     Tagged(<< Emit(Events.AUTHENTICATED, <<"session">>),
                               Emit(Events.READY, <<>>) >>, 0))

\* The first injection failed, initialize went on to ready, and a
\* notification was republished.
C13_Witness ==
    /\ console = << Failure.ExposeStore >>
    /\ initPc = "ready"
    /\ \E k \in 1..Len(log) : log[k].n # 0

-----------------------------------------------------------------------------
(* Teardown: properties *)

\* C14 (as stated): every destroy() call, by the host or by the handler of
\* the connection state, has started the wait for the element in the page;
\* its promise is pending while the element is not shown, resolved once it
\* is, and never rejected.
C14_DestroyWaitsForMarker ==
    \A d \in 1..Len(destroys) :
        /\ destroys[d].waited
        /\ destroys[d].pc = IF marker THEN "resolved" ELSE "pending"
        /\ destroys[d].pc # "rejected"

\* The notifications that made the bridge emit disconnected.
Disconnects == { log[k].n : k \in EmittedAt("disconnected") }

\* C15 (as stated): disconnected is in the log at most once, and no event of
\* a notification delivered after the one that caused it is in the log.
C15_DisconnectIsTerminal ==
    /\ Cardinality(EmittedAt("disconnected")) <= 1
    /\ \A i \in Disconnects :
        \A k \in 1..Len(log) : log[k].op = "emit" => log[k].n <= i

\* What the handlers of notification i do when no listener throws.
Intended(i) ==
    LET last == IF LastCachedBefore(i) = 0 THEN Undefined
                ELSE notifs[LastCachedBefore(i)].args[1]
    IN HandlerEffects(notifs[i], last)

\* C16 (as stated): every notification delivered has all the effects of its
\* handler in the log, whichever listener threw: 'message' after
\* message_create, disconnected and destroy() after change_state of a state
\* that is not accepted.
C16_ListenersIsolated ==
    \A i \in 1..Len(notifs) : EffectsOf(i) = Intended(i)

\* The notifications whose handler call the host has run.
Handled == { i \in 1..Len(notifs) : \A k \in 1..Len(inflight) : inflight[k] # i }

IsPrefix(a, b) == Len(a) <= Len(b) /\ a = SubSeq(b, 1, Len(a))

\* C17: the events in the log are in the order of the notifications that
\* caused them (every event of an earlier notification before any event of
\* a later one); the host has run the handler calls in the order the page
\* posted them, the calls in flight being the latest notifications; and the
\* events of a notification are those of its handler, in its order, up to a
\* listener that throws.
C17_OrderPreserved ==
    /\ \A a \in 1..Len(log), b \in 1..Len(log) : a < b => log[a].n <= log[b].n
    /\ inflight = [ k \in 1..Len(inflight) |-> Len(notifs) - Len(inflight) + k ]
    /\ \A i \in 1..Len(notifs) :
        IF i \in Handled THEN IsPrefix(EffectsOf(i), Intended(i))
        ELSE EffectsOf(i) = <<>>

\* Two notifications were republished, the first as two events, after both
\* calls had been in flight together with a third, which still is.
C17_Witness ==
    /\ Len(notifs) = 3
    /\ inflight = <<3>>
    /\ Len(EffectsOf(1)) = 2
    /\ Len(EffectsOf(2)) >= 1

-----------------------------------------------------------------------------
(* The command bridge: properties of the content and of the borrowed identity *)

\* The three kinds of content of a send, as the page receives them.
PlainText(message, options) ==
    /\ message.class = "String" /\ message.value # ""
    /\ options.attachment = Undefined
    /\ options.location = Undefined

Media(message, options) ==
    /\ options.attachment.class = "MessageMedia"
    /\ message = Text("")
    /\ options.location = Undefined

Place(message, options) ==
    /\ options.location.class = "Location"
    /\ message = Text("")
    /\ options.attachment = Undefined

ModesOf(message, options) ==
    { m \in {"text", "media", "location"} :
        \/ m = "text" /\ PlainText(message, options)
        \/ m = "media" /\ Media(message, options)
        \/ m = "location" /\ Place(message, options) }

\* C18 (as stated): whatever the content (text, media, location) and
\* whether options.media is given or not, the message and options a call
\* passes into the page, and on to the send helper, are of exactly one kind:
\* a text that is not empty with no attachment and no location, an
\* attachment with an empty text, or a location with an empty text.
C18_ExactlyOneMode ==
    \A c \in 1..MaxCalls :
        /\ calls[c].pc \notin {"idle", "rejected"} =>
            Cardinality(ModesOf(calls[c].message, calls[c].options)) = 1
        /\ \A k \in 1..Len(calls[c].invoked) :
            calls[c].invoked[k].fn = "sendMessage" =>
                Cardinality(ModesOf(calls[c].invoked[k].args[1],
                                    calls[c].invoked[k].args[2])) = 1

\* The identities the chats of the list had when the client was constructed.
Original == SubSeq(ChatIds, 1, Len(models))

\* C19 (as stated): when every call has completed and none failed while it
\* held a borrowed identity, every chat carries its original identity; and
\* the identity a call saves at line 293 is the original one of the first
\* chat, never one another call has assigned.
C19_ConcurrentBorrowsRestored ==
    /\ ( /\ \A c \in 1..MaxCalls : calls[c].pc \in {"idle", "returned", "rejected"}
         /\ \A c \in 1..MaxCalls : ~(calls[c].pc = "rejected" /\ Borrowed(c)) )
       => models = Original
    /\ \A c \in 1..MaxCalls :
        Borrowed(c) => calls[c].originalChatObjId = ChatIds[1]

\* C20 (as stated): a call, made with no other call under way, that fails in
\* the send helper after borrowing the identity of the first chat is
\* rejected with the helper's failure and leaves every chat with its
\* original identity.
C20_FailedBorrowRestored ==
    \A c \in 1..MaxCalls :
        ( /\ calls[c].pc = "rejected" /\ Borrowed(c)
          /\ \A d \in 1..MaxCalls : d # c => calls[d].pc = "idle" )
        => /\ calls[c].err = "Evaluation failed: helper"
           /\ models = Original

====
